---- MODULE Spec2Model ----
(***************************************************************************)
(* FileManager (src/file_manager.py): a session holding the current        *)
(* directory, its enumerated entries and the selected subset, with bulk    *)
(* copy / move / delete over injectable filesystem, transfer and random    *)
(* ports, and the routes of the Flask layer (src/app.py).                  *)
(*                                                                         *)
(* Every FileManager method and every route is one action.  The ports are  *)
(* modelled after the doubles of src/test_file_manager.py: the filesystem  *)
(* is a set of existing paths that create_directory extends, the transfer  *)
(* port records the calls it receives and may raise on any one of them,    *)
(* the random source replays a scripted list of words and then falls back  *)
(* to the first word of the list it is given.                              *)
(***************************************************************************)
EXTENDS Integers, Sequences, FiniteSets, TLC

VARIABLES
    current_directory,  \* FileManager._current_directory (None before a load)
    entries,            \* FileManager._entries, a sequence of leaf names
    selection,          \* FileManager._selection, a set of leaf names
    existing_paths,     \* the paths the filesystem port reports as existing
    last,               \* observation of the latest call: arguments, result, port calls
    held,               \* history: a list object held outside the session, by a
                        \* caller that got it from the session or by the port
    loaded              \* history: the latest load that succeeded, what it listed
                        \* and the names removed since

vars == <<current_directory, entries, selection, existing_paths, last, held, loaded>>

----------------------------------------------------------------------------
(* held is recorded where the callers' copies are explored (SpecSnapshots)  *)
(* and where the port's list is (SpecPort), loaded where the load history   *)
(* is (SpecLoads, and SpecRemovals for the names removed); elsewhere they   *)
(* keep their initial value.                                                *)

(* Bounds of the model. *)

\* number of distinct leaf names a directory listing may hold
MaxNames == 2
\* number of candidate names a random script fixes before the source falls back
MaxVaried == 1
\* directories the session may create in all, where the session is explored
SessionCreated == 1
\* directories the session may create in all, where name generation is explored
MaxCreated == 3

\* number of distinct leaf names a listing may hold, where the order of entries
\* and the load history are explored
WideNames == 3

(* Program constants. *)

\* max_retries of _generate_unique_name
max_retries == 10

None == "<None>"

NOUNS == <<"soleil", "lune", "etoile", "montagne", "riviere",
           "foret", "ocean", "desert", "prairie", "colline",
           "nuage", "vent", "tempete", "aurore", "crepuscule",
           "jardin", "cascade", "vallee", "plaine", "horizon">>

ADJECTIVES == <<"grand", "petit", "beau", "ancien", "nouveau",
                "rouge", "bleu", "vert", "dore", "argente",
                "rapide", "calme", "brillant", "sombre", "clair",
                "joyeux", "paisible", "mysterieux", "magique", "eternel">>

(* The universe the inputs are drawn from. *)

\* leaf names of the listings; the first is a file, the second a directory
EntryNames == <<"fichier1.txt", "dossier1", "document.pdf", "dossier2">>
FileNames == {"fichier1.txt", "document.pdf"}
Names == {EntryNames[i] : i \in 1..MaxNames}
NamesWide == {EntryNames[i] : i \in 1..WideNames}
\* a name that no listing holds
Intruder == "fake.txt"

\* the directory that can be loaded, and a path that does not exist
SourceDir == "/source"
AbsentDir == "/absent"
LoadPaths == {SourceDir, AbsentDir}
\* the destinations a caller passes: none, the empty string, an explicit path
Destinations == {None, "", "/dest"}
SessionDestinations == {None, "/dest"}
\* the JSON bodies a client posts to /api/selection; None stands for a key that is
\* not there (a body that is absent or empty has no action), "rename" for an
\* action the route does not know
ApiActions == {None, "select", "deselect", "select_all", "deselect_all", "rename"}
ApiEntries == {None, ""} \cup Names \cup {Intruder}
Bodies == [action : ApiActions, entry : ApiEntries]

\* the words a scripted random source returns
ScriptAdjectives == {"beau"}
ScriptNouns == {"montagne"}

----------------------------------------------------------------------------
(* Sequence helpers. *)

Range(s) == {s[i] : i \in DOMAIN s}

InjectiveSeqs(S) ==
    UNION {{s \in [1..n -> S] : \A i, j \in 1..n : i # j => s[i] # s[j]}
           : n \in 0..Cardinality(S)}

\* every order in which the elements of a set can be iterated
Orders(S) == {s \in [1..Cardinality(S) -> S] : Range(s) = S}

\* list.remove(x): drops the first occurrence of x (x is in the list)
RECURSIVE list_remove(_, _)
list_remove(s, x) ==
    IF s = <<>> THEN <<>>
    ELSE IF Head(s) = x THEN Tail(s)
    ELSE <<Head(s)>> \o list_remove(Tail(s), x)

\* for entry in list(selection): entries.remove(entry), in the order given;
\* list.remove raises ValueError at the first name that is not in the list
RECURSIVE remove_all(_, _)
remove_all(s, order) ==
    IF order = <<>> THEN [list |-> s, raised |-> ""]
    ELSE IF Head(order) \notin Range(s) THEN [list |-> s, raised |-> "ValueError"]
    ELSE remove_all(list_remove(s, Head(order)), Tail(order))

----------------------------------------------------------------------------
(* Filesystem port. *)

join_path(a, b) == a \o "/" \o b

files == {join_path(SourceDir, n) : n \in FileNames}

\* what exists before the session starts: the source directory and its children
InitialPaths ==
    {SourceDir} \cup {join_path(SourceDir, EntryNames[i]) : i \in DOMAIN EntryNames}

exists(path, ex) == path \in ex

is_directory(path, ex) == path \in ex /\ path \notin files

\* the paths a client asks GET /api/files for: a directory, a path that does not
\* exist, a file
ApiPaths == LoadPaths \cup {join_path(SourceDir, EntryNames[1])}

\* the listings list_directory can return: names are unique within a directory
Listings == InjectiveSeqs(Names)
\* the listings of a directory whose entries come in the order of EntryNames
WideListings == {SubSeq(EntryNames, 1, n) : n \in 0..WideNames}
\* the listings of a directory that holds one entry at most
ShortListings == {l \in Listings : Len(l) <= 1}

----------------------------------------------------------------------------
(* Random name source and name generator. *)

\* the word lists a scripted random source replays: adjective, noun, adjective, ...
Scripts ==
    UNION {{v \in [1..(2 * k) -> ScriptAdjectives \cup ScriptNouns] :
                \A i \in 1..(2 * k) :
                    v[i] \in (IF i % 2 = 1 THEN ScriptAdjectives ELSE ScriptNouns)}
           : k \in 0..MaxVaried}

\* an explicit destination draws nothing, so the script does not matter
ScriptsFor(destination) ==
    IF destination # None /\ destination # "" THEN {<<>>} ELSE Scripts

\* choice(sequence) of a source that has already answered call_index calls
choice(sequence, values, call_index) ==
    IF call_index < Len(values) THEN values[call_index + 1] ELSE sequence[1]

\* _generate_random_name that asks for the noun first
generate_random_name_noun_first(values, call_index) ==
    LET noun == choice(NOUNS, values, call_index)
        adjective == choice(ADJECTIVES, values, call_index + 1)
    IN adjective \o "_" \o noun

\* the candidate drawn by the two choice calls that follow call_index
generate_random_name(values, call_index) ==
    LET adjective == choice(ADJECTIVES, values, call_index)
        noun == choice(NOUNS, values, call_index + 1)
    IN adjective \o "_" \o noun

\* numbering that steps its counter by two
RECURSIVE numbering_by_two(_, _, _, _)
numbering_by_two(last_name, directory, ex, counter) ==
    LET numbered_name == last_name \o "_" \o ToString(counter)
    IN IF ~exists(join_path(directory, numbered_name), ex)
       THEN [name |-> numbered_name, counter |-> counter]
       ELSE numbering_by_two(last_name, directory, ex, counter + 2)

\* numbering without the existence loop: the first numbered name is returned
numbering_unchecked(last_name, directory, ex, counter) ==
    [name |-> last_name \o "_" \o ToString(counter), counter |-> counter]

\* while True: numbered_name = f"{last_name}_{counter}" ...
RECURSIVE numbering(_, _, _, _)
numbering(last_name, directory, ex, counter) ==
    LET numbered_name == last_name \o "_" \o ToString(counter)
    IN IF ~exists(join_path(directory, numbered_name), ex)
       THEN [name |-> numbered_name, counter |-> counter]
       ELSE numbering(last_name, directory, ex, counter + 1)

\* the probing loop that numbers its first candidate instead of its last
RECURSIVE probing_numbers_first(_, _, _, _, _)
probing_numbers_first(values, directory, ex, attempt, drawn) ==
    IF attempt > max_retries
    THEN LET n == numbering(drawn[1], directory, ex, 1)
         IN [name |-> n.name, drawn |-> drawn, counter |-> n.counter]
    ELSE LET name == generate_random_name(values, 2 * (attempt - 1))
         IN IF ~exists(join_path(directory, name), ex)
            THEN [name |-> name, drawn |-> Append(drawn, name), counter |-> 0]
            ELSE probing_numbers_first(values, directory, ex, attempt + 1,
                                       Append(drawn, name))

\* the probing loop with the existence test inverted
RECURSIVE probing_inverted(_, _, _, _, _)
probing_inverted(values, directory, ex, attempt, drawn) ==
    IF attempt > max_retries
    THEN LET n == numbering(drawn[Len(drawn)], directory, ex, 1)
         IN [name |-> n.name, drawn |-> drawn, counter |-> n.counter]
    ELSE LET name == generate_random_name(values, 2 * (attempt - 1))
         IN IF exists(join_path(directory, name), ex)
            THEN [name |-> name, drawn |-> Append(drawn, name), counter |-> 0]
            ELSE probing_inverted(values, directory, ex, attempt + 1,
                                  Append(drawn, name))

\* for _ in range(max_retries): ... ; attempt counts from 1, drawn is the history
RECURSIVE probing(_, _, _, _, _)
probing(values, directory, ex, attempt, drawn) ==
    IF attempt > max_retries
    THEN LET n == numbering(drawn[Len(drawn)], directory, ex, 1)
         IN [name |-> n.name, drawn |-> drawn, counter |-> n.counter]
    ELSE LET name == generate_random_name(values, 2 * (attempt - 1))
         IN IF ~exists(join_path(directory, name), ex)
            THEN [name |-> name, drawn |-> Append(drawn, name), counter |-> 0]
            ELSE probing(values, directory, ex, attempt + 1, Append(drawn, name))

\* _generate_unique_name that returns its first candidate without probing
generate_unique_name_unchecked(values, directory, ex) ==
    LET name == generate_random_name(values, 0)
    IN [name |-> name, drawn |-> <<name>>, counter |-> 0]

\* _generate_unique_name: the name, the candidates drawn, the counter used (0: none)
generate_unique_name(values, directory, ex) ==
    probing(values, directory, ex, 1, <<>>)

\* _get_destination_path with "if destination is not None": the empty string
\* counts as an explicit destination
get_destination_path_not_none(destination, values, directory, ex) ==
    IF destination # None
    THEN [path |-> destination, drawn |-> <<>>, counter |-> 0, probes |-> 0,
          raised |-> ""]
    ELSE IF directory = None
    THEN [path |-> None, drawn |-> <<generate_random_name(values, 0)>>,
          counter |-> 0, probes |-> 0, raised |-> "TypeError"]
    ELSE LET g == generate_unique_name(values, directory, ex)
         IN [path |-> join_path(directory, g.name), drawn |-> g.drawn,
             counter |-> g.counter, probes |-> Len(g.drawn) + g.counter,
             raised |-> ""]

\* _get_destination_path: the explicit destination when truthy, else a generated
\* one; join_path(None, name) raises TypeError after the first candidate is drawn.
\* probes counts the exists calls of the name generator: one per candidate drawn
\* and one per numbered name tried
get_destination_path(destination, values, directory, ex) ==
    IF destination # None /\ destination # ""
    THEN [path |-> destination, drawn |-> <<>>, counter |-> 0, probes |-> 0,
          raised |-> ""]
    ELSE IF directory = None
    THEN [path |-> None, drawn |-> <<generate_random_name(values, 0)>>,
          counter |-> 0, probes |-> 0, raised |-> "TypeError"]
    ELSE LET g == generate_unique_name(values, directory, ex)
         IN [path |-> join_path(directory, g.name), drawn |-> g.drawn,
             counter |-> g.counter, probes |-> Len(g.drawn) + g.counter,
             raised |-> ""]

----------------------------------------------------------------------------
(* Observation of a call. *)

NoResponse ==
    [status |-> 0, keys |-> {}, success |-> "", deleted_count |-> 0,
     selection |-> {}]

\* the destinations that copy_selection and move_selection calls without an explicit
\* destination have resolved up to and including the latest call
resolved_so_far ==
    last.earlier \cup
        (IF /\ last.op \in {"copy_selection", "move_selection"}
            /\ last.arg \in {None, ""}
            /\ last.dest # None
         THEN {last.dest}
         ELSE {})

\* what the caller and the ports saw of one call, with the state it started from
Observation(op, arg, ret, raised, calls, drawn, response) ==
    [op |-> op, arg |-> arg, ret |-> ret, raised |-> raised,
     calls |-> calls, drawn |-> drawn, response |-> response,
     listing |-> <<>>, values |-> <<>>, dest |-> None, counter |-> 0,
     probes |-> 0, earlier |-> resolved_so_far,
     pre_directory |-> current_directory, pre_entries |-> entries,
     pre_selection |-> selection, pre_paths |-> existing_paths]

Bool(b) == IF b THEN "True" ELSE "False"

----------------------------------------------------------------------------
(* FileManager. *)

\* __init__: no directory, no entries, nothing selected
Init ==
    /\ current_directory = None
    /\ entries = <<>>
    /\ selection = {}
    /\ existing_paths = InitialPaths
    /\ last = [op |-> "__init__", arg |-> None, ret |-> None, raised |-> "",
               calls |-> <<>>, drawn |-> <<>>, response |-> NoResponse,
               listing |-> <<>>, values |-> <<>>, dest |-> None, counter |-> 0,
               probes |-> 0, earlier |-> {},
               pre_directory |-> None, pre_entries |-> <<>>,
               pre_selection |-> {}, pre_paths |-> InitialPaths]
    /\ held = [alias |-> "none", from |-> "none", list |-> <<>>]
    /\ loaded = [directory |-> None, listing |-> <<>>, removed |-> {}]

\* list_entries without self._selection.clear()
list_entries_keeps_selection(directory, listing) ==
    /\ current_directory' = directory
    /\ IF exists(directory, existing_paths) /\ is_directory(directory, existing_paths)
       THEN /\ entries' = listing
            /\ last' = [Observation("list_entries", directory, "list", "",
                                    <<>>, <<>>, NoResponse)
                            EXCEPT !.listing = listing]
       ELSE /\ entries' = entries
            /\ last' = Observation("list_entries", directory, None,
                                   "FileNotFoundError", <<>>, <<>>, NoResponse)
    /\ UNCHANGED <<selection, existing_paths>>

\* list_entries(directory): the directory is recorded first, then list_directory
\* is called (os.listdir raises on a path that is absent or no directory; listing
\* is what it returns otherwise), then the selection is cleared
list_entries(directory, listing) ==
    /\ current_directory' = directory
    /\ IF exists(directory, existing_paths) /\ is_directory(directory, existing_paths)
       THEN /\ entries' = listing
            /\ selection' = {}
            /\ last' = [Observation("list_entries", directory, "list", "",
                                    <<>>, <<>>, NoResponse)
                            EXCEPT !.listing = listing]
       ELSE /\ UNCHANGED <<entries, selection>>
            /\ last' = Observation("list_entries", directory, None,
                                   "FileNotFoundError", <<>>, <<>>, NoResponse)
    /\ UNCHANGED existing_paths

\* select without the membership test
select_ungated(entry) ==
    /\ selection' = selection \cup {entry}
    /\ last' = Observation("select", entry, Bool(TRUE), "", <<>>, <<>>, NoResponse)
    /\ UNCHANGED <<current_directory, entries, existing_paths>>

\* select that answers True whether or not the entry is known
select_always_true(entry) ==
    /\ selection' = IF entry \in Range(entries) THEN selection \cup {entry}
                    ELSE selection
    /\ last' = Observation("select", entry, Bool(TRUE), "", <<>>, <<>>, NoResponse)
    /\ UNCHANGED <<current_directory, entries, existing_paths>>

\* select(entry)
select(entry) ==
    /\ IF entry \in Range(entries)
       THEN /\ selection' = selection \cup {entry}
            /\ last' = Observation("select", entry, Bool(TRUE), "", <<>>, <<>>,
                                   NoResponse)
       ELSE /\ selection' = selection
            /\ last' = Observation("select", entry, Bool(FALSE), "", <<>>, <<>>,
                                   NoResponse)
    /\ UNCHANGED <<current_directory, entries, existing_paths>>

\* deselect that also drops the entry from entries
deselect_drops_entry(entry) ==
    /\ IF entry \in selection
       THEN /\ selection' = selection \ {entry}
            /\ entries' = list_remove(entries, entry)
            /\ last' = Observation("deselect", entry, Bool(TRUE), "", <<>>, <<>>,
                                   NoResponse)
       ELSE /\ selection' = selection
            /\ entries' = entries
            /\ last' = Observation("deselect", entry, Bool(FALSE), "", <<>>, <<>>,
                                   NoResponse)
    /\ UNCHANGED <<current_directory, existing_paths>>

\* deselect that clears the whole selection when the entry was selected
deselect_clears(entry) ==
    /\ IF entry \in selection
       THEN /\ selection' = {}
            /\ last' = Observation("deselect", entry, Bool(TRUE), "", <<>>, <<>>,
                                   NoResponse)
       ELSE /\ selection' = selection
            /\ last' = Observation("deselect", entry, Bool(FALSE), "", <<>>, <<>>,
                                   NoResponse)
    /\ UNCHANGED <<current_directory, entries, existing_paths>>

\* deselect(entry)
deselect(entry) ==
    /\ IF entry \in selection
       THEN /\ selection' = selection \ {entry}
            /\ last' = Observation("deselect", entry, Bool(TRUE), "", <<>>, <<>>,
                                   NoResponse)
       ELSE /\ selection' = selection
            /\ last' = Observation("deselect", entry, Bool(FALSE), "", <<>>, <<>>,
                                   NoResponse)
    /\ UNCHANGED <<current_directory, entries, existing_paths>>

\* select_all that adds nothing once something is selected
select_all_when_empty ==
    /\ selection' = IF selection = {} THEN Range(entries) ELSE selection
    /\ last' = Observation("select_all", None, None, "", <<>>, <<>>, NoResponse)
    /\ UNCHANGED <<current_directory, entries, existing_paths>>

\* select_all()
select_all ==
    /\ selection' = Range(entries)
    /\ last' = Observation("select_all", None, None, "", <<>>, <<>>, NoResponse)
    /\ UNCHANGED <<current_directory, entries, existing_paths>>

\* deselect_all()
deselect_all ==
    /\ selection' = {}
    /\ last' = Observation("deselect_all", None, None, "", <<>>, <<>>, NoResponse)
    /\ UNCHANGED <<current_directory, entries, existing_paths>>

----------------------------------------------------------------------------
(* Values handed to the caller.  held is the list object the caller got last: *)
(* its content, the method it came from, and alias, "entries" when the        *)
(* object is self._entries itself and "none" when it is an object of its own. *)

\* list.copy() and list(set): a new list object with the content given
snapshot(from, list) == [alias |-> "none", from |-> from, list |-> list]

\* the value list_entries returns, self._entries.copy(), when the load succeeds
returned_listing(listing) ==
    held' = IF last'.raised = "" THEN snapshot("list_entries", listing) ELSE held

\* get_entries that returns self._entries instead of a copy
get_entries_returns_self ==
    /\ held' = [alias |-> "entries", from |-> "get_entries", list |-> entries]
    /\ last' = Observation("get_entries", None, "list", "", <<>>, <<>>, NoResponse)
    /\ UNCHANGED <<current_directory, entries, selection, existing_paths, loaded>>

\* get_entries(): self._entries.copy()
get_entries ==
    /\ held' = snapshot("get_entries", entries)
    /\ last' = Observation("get_entries", None, "list", "", <<>>, <<>>, NoResponse)
    /\ UNCHANGED <<current_directory, entries, selection, existing_paths, loaded>>

\* get_selection(): list(self._selection), in the iteration order of the set
get_selection ==
    \E order \in Orders(selection) :
        /\ held' = snapshot("get_selection", order)
        /\ last' = Observation("get_selection", None, "list", "", <<>>, <<>>,
                               NoResponse)
        /\ UNCHANGED <<current_directory, entries, selection, existing_paths,
                       loaded>>

\* the holder of the list, caller or port, appends a name to it; the session's
\* list changes with it when the two are one object
caller_append(name) ==
    /\ held.from # "none"
    /\ Len(held.list) <= MaxNames
    /\ held' = [held EXCEPT !.list = Append(@, name)]
    /\ entries' = IF held.alias = "entries" THEN Append(entries, name) ELSE entries
    /\ last' = Observation("caller_append", name, None, "", <<>>, <<>>, NoResponse)
    /\ UNCHANGED <<current_directory, selection, existing_paths, loaded>>

----------------------------------------------------------------------------
(* Transfer orchestrator.  order is the iteration order of the selection   *)
(* set; fail is the index of the transfer call that raises (0: none does). *)

\* the destination step without the exists test: the destination is always created
destination_step_always_creates(destination, values) ==
    LET d == get_destination_path(destination, values, current_directory,
                                  existing_paths)
        create == d.raised = ""
    IN [path |-> d.path, drawn |-> d.drawn, counter |-> d.counter,
        probes |-> d.probes, raised |-> d.raised,
        paths |-> IF create THEN existing_paths \cup {d.path} ELSE existing_paths,
        calls |-> IF create THEN <<<<"create_directory", d.path, "">>>> ELSE <<>>]

\* the destination step over a port that forgets the directories it creates
destination_step_forgotten(destination, values) ==
    LET d == get_destination_path(destination, values, current_directory,
                                  existing_paths)
        create == d.raised = "" /\ ~exists(d.path, existing_paths)
    IN [path |-> d.path, drawn |-> d.drawn, counter |-> d.counter,
        probes |-> d.probes, raised |-> d.raised,
        paths |-> existing_paths,
        calls |-> IF create THEN <<<<"create_directory", d.path, "">>>> ELSE <<>>]

\* the destination step of copy and move: resolve, then create when absent
destination_step(destination, values) ==
    LET d == get_destination_path(destination, values, current_directory,
                                  existing_paths)
        create == d.raised = "" /\ ~exists(d.path, existing_paths)
    IN [path |-> d.path, drawn |-> d.drawn, counter |-> d.counter,
        probes |-> d.probes, raised |-> d.raised,
        paths |-> IF create THEN existing_paths \cup {d.path} ELSE existing_paths,
        calls |-> IF create THEN <<<<"create_directory", d.path, "">>>> ELSE <<>>]

\* the transfer calls of copy_selection, one per selected entry
copy_calls(order, dest_path, ex) ==
    [i \in 1..Len(order) |->
        LET source == join_path(current_directory, order[i])
            target == join_path(dest_path, order[i])
        IN IF is_directory(source, ex)
           THEN <<"copy_directory", source, target>>
           ELSE <<"copy_file", source, target>>]

\* the transfer calls of move_selection
move_calls(order, dest_path) ==
    [i \in 1..Len(order) |->
        <<"move", join_path(current_directory, order[i]),
          join_path(dest_path, order[i])>>]

\* the transfer calls of delete_selection
delete_calls(order, ex) ==
    [i \in 1..Len(order) |->
        LET path == join_path(current_directory, order[i])
        IN IF is_directory(path, ex)
           THEN <<"delete_directory", path, "">>
           ELSE <<"delete_file", path, "">>]

\* the calls that reach the port when call number fail raises
issued(calls, fail) == IF fail = 0 THEN calls ELSE SubSeq(calls, 1, fail)

\* a closing update that also runs after a failure, for the entries processed
\* before it
forget_processed(order, fail) ==
    IF fail # 0
    THEN LET done == SubSeq(order, 1, fail - 1)
         IN [entries |-> remove_all(entries, done).list,
             selection |-> selection \ Range(done), raised |-> "OSError"]
    ELSE LET r == remove_all(entries, order)
         IN [entries |-> r.list,
             selection |-> IF r.raised = "" THEN {} ELSE selection,
             raised |-> r.raised]

\* a closing update that rebuilds entries from the set of names left, losing
\* their order
forget_reorders(order, fail) ==
    IF fail # 0
    THEN [entries |-> entries, selection |-> selection, raised |-> "OSError"]
    ELSE LET r == remove_all(entries, order)
         IN [entries |-> [i \in 1..Len(r.list) |-> r.list[Len(r.list) + 1 - i]],
             selection |-> IF r.raised = "" THEN {} ELSE selection,
             raised |-> r.raised]

\* the closing update without the removal from entries
forget_keeps_entries(order, fail) ==
    IF fail # 0
    THEN [entries |-> entries, selection |-> selection, raised |-> "OSError"]
    ELSE [entries |-> entries, selection |-> {}, raised |-> ""]

\* the in-memory update that closes move_selection and delete_selection: it is
\* reached only when no transfer call raised
forget_selection(order, fail) ==
    IF fail # 0
    THEN [entries |-> entries, selection |-> selection, raised |-> "OSError"]
    ELSE LET r == remove_all(entries, order)
         IN [entries |-> r.list,
             selection |-> IF r.raised = "" THEN {} ELSE selection,
             raised |-> r.raised]

\* copy_selection that clears the selection at the end, as move_selection does
copy_selection_clears(destination, values) ==
        LET d == destination_step(destination, values)
        IN /\ existing_paths' = d.paths
           /\ IF d.raised # ""
              THEN /\ selection' = selection
                   /\ last' = [Observation("copy_selection", destination, None,
                                           d.raised, <<>>, d.drawn, NoResponse)
                                  EXCEPT !.values = values]
              ELSE \E order \in Orders(selection) :
                       /\ selection' = {}
                       /\ last' = [Observation("copy_selection", destination,
                                       d.path, "",
                                       d.calls \o copy_calls(order, d.path, d.paths),
                                       d.drawn, NoResponse)
                                     EXCEPT !.values = values,
                                            !.counter = d.counter,
                                            !.probes = d.probes, !.dest = d.path]
           /\ UNCHANGED <<current_directory, entries>>

\* copy_selection that returns at once, None, when nothing is selected
copy_selection_skips_empty(destination, values) ==
        LET d == destination_step(destination, values)
        IN /\ existing_paths' = IF selection = {} THEN existing_paths ELSE d.paths
           /\ IF selection = {}
              THEN last' = [Observation("copy_selection", destination, None, "",
                                        <<>>, <<>>, NoResponse)
                               EXCEPT !.values = values]
              ELSE IF d.raised # ""
              THEN last' = [Observation("copy_selection", destination, None,
                                        d.raised, <<>>, d.drawn, NoResponse)
                               EXCEPT !.values = values]
              ELSE \E order \in Orders(selection),
                      fail \in 0..Cardinality(selection) :
                       last' = [Observation("copy_selection", destination,
                                    IF fail = 0 THEN d.path ELSE None,
                                    IF fail = 0 THEN "" ELSE "OSError",
                                    d.calls \o issued(copy_calls(order, d.path,
                                                                 d.paths), fail),
                                    d.drawn, NoResponse)
                                  EXCEPT !.values = values,
                                         !.counter = d.counter,
                                         !.probes = d.probes, !.dest = d.path]
           /\ UNCHANGED <<current_directory, entries, selection>>

\* copy_selection(destination), with a random source that replays values
copy_selection(destination, values) ==
        LET d == destination_step(destination, values)
        IN /\ existing_paths' = d.paths
           /\ IF d.raised # ""
              THEN last' = [Observation("copy_selection", destination, None,
                                        d.raised, <<>>, d.drawn, NoResponse)
                               EXCEPT !.values = values]
              ELSE \E order \in Orders(selection),
                      fail \in 0..Cardinality(selection) :
                       last' = [Observation("copy_selection", destination,
                                    IF fail = 0 THEN d.path ELSE None,
                                    IF fail = 0 THEN "" ELSE "OSError",
                                    d.calls \o issued(copy_calls(order, d.path,
                                                                 d.paths), fail),
                                    d.drawn, NoResponse)
                                  EXCEPT !.values = values,
                                         !.counter = d.counter,
                                         !.probes = d.probes, !.dest = d.path]
           /\ UNCHANGED <<current_directory, entries, selection>>

\* move_selection(destination), with a random source that replays values
move_selection(destination, values) ==
        LET d == destination_step(destination, values)
        IN /\ existing_paths' = d.paths
           /\ IF d.raised # ""
              THEN /\ UNCHANGED <<entries, selection>>
                   /\ last' = [Observation("move_selection", destination, None,
                                           d.raised, <<>>, d.drawn, NoResponse)
                                  EXCEPT !.values = values]
              ELSE \E order \in Orders(selection),
                      fail \in 0..Cardinality(selection) :
                       LET f == forget_selection(order, fail)
                       IN /\ entries' = f.entries
                          /\ selection' = f.selection
                          /\ last' = [Observation("move_selection", destination,
                                          IF f.raised = "" THEN d.path ELSE None,
                                          f.raised,
                                          d.calls \o issued(move_calls(order, d.path),
                                                            fail),
                                          d.drawn, NoResponse)
                                        EXCEPT !.values = values,
                                               !.counter = d.counter,
                                               !.probes = d.probes,
                                               !.dest = d.path]
           /\ UNCHANGED current_directory

\* delete_selection that empties entries once the calls are made
delete_selection_drops_entries ==
    \E order \in Orders(selection), fail \in 0..Cardinality(selection) :
        LET calls == delete_calls(order, existing_paths)
            f == forget_selection(order, fail)
        IN /\ entries' = IF f.raised = "" THEN <<>> ELSE f.entries
           /\ selection' = f.selection
           /\ last' = Observation("delete_selection", None, None, f.raised,
                                  issued(calls, fail), <<>>, NoResponse)
           /\ UNCHANGED <<current_directory, existing_paths>>

\* delete_selection(): returns None
delete_selection ==
    \E order \in Orders(selection), fail \in 0..Cardinality(selection) :
        LET calls == delete_calls(order, existing_paths)
            f == forget_selection(order, fail)
        IN /\ entries' = f.entries
           /\ selection' = f.selection
           /\ last' = Observation("delete_selection", None, None, f.raised,
                                  issued(calls, fail), <<>>, NoResponse)
           /\ UNCHANGED <<current_directory, existing_paths>>

----------------------------------------------------------------------------
(* Flask layer. *)

\* an error answer, and the answer of a selection request that went through
Refused(status) == [NoResponse EXCEPT !.status = status, !.keys = {"error"}]
Accepted(selected) ==
    [NoResponse EXCEPT !.status = 200, !.keys = {"success", "selection"},
                       !.success = "True", !.selection = selected]

\* GET /api/files without the two os.path tests
list_files_unchecked(path, listing) ==
    /\ current_directory' = path
    /\ IF exists(path, existing_paths) /\ is_directory(path, existing_paths)
       THEN /\ entries' = listing
            /\ selection' = {}
            /\ last' = [Observation("list_files", path, None, "", <<>>, <<>>,
                                    [NoResponse EXCEPT !.status = 200,
                                                       !.keys = {"path", "entries"}])
                            EXCEPT !.listing = listing]
       ELSE /\ UNCHANGED <<entries, selection>>
            /\ last' = Observation("list_files", path, None, "FileNotFoundError",
                                   <<>>, <<>>, Refused(500))
    /\ UNCHANGED existing_paths

\* GET /api/files?path=: 404 for a path that does not exist, 400 for one that is
\* no directory, else list_entries(path) and 200 with the entries
list_files(path, listing) ==
    IF ~exists(path, existing_paths)
    THEN /\ last' = Observation("list_files", path, None, "", <<>>, <<>>,
                                Refused(404))
         /\ UNCHANGED <<current_directory, entries, selection, existing_paths>>
    ELSE IF ~is_directory(path, existing_paths)
    THEN /\ last' = Observation("list_files", path, None, "", <<>>, <<>>,
                                Refused(400))
         /\ UNCHANGED <<current_directory, entries, selection, existing_paths>>
    ELSE /\ current_directory' = path
         /\ entries' = listing
         /\ selection' = {}
         /\ last' = [Observation("list_files", path, None, "", <<>>, <<>>,
                                 [NoResponse EXCEPT !.status = 200,
                                                    !.keys = {"path", "entries"}])
                         EXCEPT !.listing = listing]
         /\ UNCHANGED existing_paths

\* the POST route that answers 200 to a select whatever select returned
selection_request_lenient(data) ==
    LET missing == data.entry = None \/ data.entry = ""
        refused == [status |-> 400, selection |-> selection]
    IN IF data.action = None THEN refused
       ELSE IF data.action = "select"
       THEN IF missing THEN refused
            ELSE [status |-> 200,
                  selection |-> IF data.entry \in Range(entries)
                                THEN selection \cup {data.entry} ELSE selection]
       ELSE IF data.action = "deselect"
       THEN IF missing THEN refused
            ELSE [status |-> 200, selection |-> selection \ {data.entry}]
       ELSE IF data.action = "select_all"
       THEN [status |-> 200, selection |-> Range(entries)]
       ELSE IF data.action = "deselect_all"
       THEN [status |-> 200, selection |-> {}]
       ELSE refused

\* the branches of POST /api/selection: the status answered and the selection the
\* FileManager call, if any, leaves
selection_request(data) ==
    LET missing == data.entry = None \/ data.entry = ""
        refused == [status |-> 400, selection |-> selection]
    IN IF data.action = None THEN refused
       ELSE IF data.action = "select"
       THEN IF missing THEN refused
            ELSE IF data.entry \in Range(entries)
            THEN [status |-> 200, selection |-> selection \cup {data.entry}]
            ELSE refused
       ELSE IF data.action = "deselect"
       THEN IF missing THEN refused
            ELSE [status |-> 200, selection |-> selection \ {data.entry}]
       ELSE IF data.action = "select_all"
       THEN [status |-> 200, selection |-> Range(entries)]
       ELSE IF data.action = "deselect_all"
       THEN [status |-> 200, selection |-> {}]
       ELSE refused

\* POST /api/selection
modify_selection(data) ==
    LET r == selection_request(data)
    IN /\ selection' = r.selection
       /\ last' = Observation("modify_selection", data, None, "", <<>>, <<>>,
                              IF r.status = 200 THEN Accepted(r.selection)
                              ELSE Refused(400))
       /\ UNCHANGED <<current_directory, entries, existing_paths>>

\* DELETE /api/files/delete: an empty selection is answered at once; otherwise
\* delete_selection runs and its result, None, is handed to len(), which raises
\* TypeError; an exception that leaves the view is answered 500
delete_files ==
    IF selection = {}
    THEN /\ last' = Observation("delete_files", None, None, "", <<>>, <<>>,
                                [status |-> 200,
                                 keys |-> {"success", "deleted_count", "message"},
                                 success |-> "True", deleted_count |-> 0,
                                 selection |-> {}])
         /\ UNCHANGED <<current_directory, entries, selection, existing_paths>>
    ELSE \E order \in Orders(selection), fail \in 0..Cardinality(selection) :
            LET calls == delete_calls(order, existing_paths)
                f == forget_selection(order, fail)
            IN /\ entries' = f.entries
               /\ selection' = f.selection
               /\ last' = Observation("delete_files", None, None,
                                      IF f.raised = "" THEN "TypeError"
                                      ELSE f.raised,
                                      issued(calls, fail), <<>>,
                                      [status |-> 500, keys |-> {},
                                       success |-> "", deleted_count |-> 0,
                                       selection |-> {}])
               /\ UNCHANGED <<current_directory, existing_paths>>

----------------------------------------------------------------------------
\* the values list_directory may return for a path: one of listings for a
\* directory; for a path where it raises it returns none, and <<>> stands in
ListingsAt(directory, listings) ==
    IF exists(directory, existing_paths) /\ is_directory(directory, existing_paths)
    THEN listings
    ELSE {<<>>}

\* the directories created since the session started
Created == existing_paths \ InitialPaths

\* the session: every listing over Names; a destination is explicit or generated by
\* a random source that always answers the first word, and few directories are created
Next ==
    \/ \E directory \in LoadPaths : \E listing \in ListingsAt(directory, Listings) :
            /\ list_entries(directory, listing)
            /\ UNCHANGED <<held, loaded>>
    \/ \E entry \in Names \cup {Intruder} :
            select(entry) /\ UNCHANGED <<held, loaded>>
    \/ \E entry \in Names \cup {Intruder} :
            deselect(entry) /\ UNCHANGED <<held, loaded>>
    \/ select_all /\ UNCHANGED <<held, loaded>>
    \/ deselect_all /\ UNCHANGED <<held, loaded>>
    \/ \E destination \in SessionDestinations :
            /\ copy_selection(destination, <<>>)
            /\ Cardinality(Created') <= SessionCreated
            /\ UNCHANGED <<held, loaded>>
    \/ \E destination \in SessionDestinations :
            /\ move_selection(destination, <<>>)
            /\ Cardinality(Created') <= SessionCreated
            /\ UNCHANGED <<held, loaded>>
    \/ delete_selection /\ UNCHANGED <<held, loaded>>

Spec == Init /\ [][Next]_vars

\* name generation: short listings, every destination and random script, more
\* created directories
NextNames ==
    \/ \E directory \in LoadPaths :
       \E listing \in ListingsAt(directory, ShortListings) :
            /\ list_entries(directory, listing)
            /\ UNCHANGED <<held, loaded>>
    \/ \E entry \in Names \cup {Intruder} :
            select(entry) /\ UNCHANGED <<held, loaded>>
    \/ \E entry \in Names \cup {Intruder} :
            deselect(entry) /\ UNCHANGED <<held, loaded>>
    \/ select_all /\ UNCHANGED <<held, loaded>>
    \/ deselect_all /\ UNCHANGED <<held, loaded>>
    \/ \E destination \in Destinations : \E values \in ScriptsFor(destination) :
            /\ copy_selection(destination, values)
            /\ Cardinality(Created') <= MaxCreated
            /\ UNCHANGED <<held, loaded>>
    \/ \E destination \in Destinations : \E values \in ScriptsFor(destination) :
            /\ move_selection(destination, values)
            /\ Cardinality(Created') <= MaxCreated
            /\ UNCHANGED <<held, loaded>>
    \/ delete_selection /\ UNCHANGED <<held, loaded>>

SpecNames == Init /\ [][NextNames]_vars

\* the methods that call the transfer port
Transfers == {"copy_selection", "move_selection", "delete_selection"}

\* the calls of an observation that went to the transfer port
TransferCalls(calls) == SelectSeq(calls, LAMBDA c : c[1] # "create_directory")

\* the history of loads: a load that succeeded is remembered with its listing
record_load(directory, listing) ==
    loaded' = IF last'.raised = ""
              THEN [directory |-> directory, listing |-> listing,
                    removed |-> loaded.removed \ Range(listing)]
              ELSE loaded

\* the names whose move or delete call was made and did not raise: every call of
\* the observation but the one that raised
handled(o) ==
    LET t == TransferCalls(o.calls)
        done == IF o.raised = "OSError" THEN SubSeq(t, 1, Len(t) - 1) ELSE t
    IN {n \in Range(o.pre_entries) :
            \E i \in 1..Len(done) : done[i][2] = join_path(o.pre_directory, n)}

\* the history of removals: the names moved or deleted since they were last listed
record_removed ==
    loaded' = [loaded EXCEPT !.removed = @ \cup handled(last')]

\* loads and transfers: longer listings in one order, loads that fail, an explicit
\* destination
NextLoads ==
    \/ \E directory \in LoadPaths :
       \E listing \in ListingsAt(directory, WideListings) :
            /\ list_entries(directory, listing)
            /\ record_load(directory, listing)
            /\ UNCHANGED held
    \/ \E entry \in NamesWide \cup {Intruder} :
            select(entry) /\ UNCHANGED <<held, loaded>>
    \/ \E entry \in NamesWide \cup {Intruder} :
            deselect(entry) /\ UNCHANGED <<held, loaded>>
    \/ select_all /\ UNCHANGED <<held, loaded>>
    \/ deselect_all /\ UNCHANGED <<held, loaded>>
    \/ copy_selection("/dest", <<>>) /\ UNCHANGED <<held, loaded>>
    \/ move_selection("/dest", <<>>) /\ UNCHANGED <<held, loaded>>
    \/ delete_selection /\ UNCHANGED <<held, loaded>>

SpecLoads == Init /\ [][NextLoads]_vars

\* loads, selections and removals, with the history of the names removed
NextRemovals ==
    \/ \E directory \in LoadPaths :
       \E listing \in ListingsAt(directory, WideListings) :
            /\ list_entries(directory, listing)
            /\ record_load(directory, listing)
            /\ UNCHANGED held
    \/ \E entry \in NamesWide : select(entry) /\ UNCHANGED <<held, loaded>>
    \/ \E entry \in NamesWide : deselect(entry) /\ UNCHANGED <<held, loaded>>
    \/ select_all /\ UNCHANGED <<held, loaded>>
    \/ move_selection("/dest", <<>>) /\ record_removed /\ UNCHANGED held
    \/ delete_selection /\ record_removed /\ UNCHANGED held

SpecRemovals == Init /\ [][NextRemovals]_vars

\* list_directory hands the session a list; kept tells whether the port keeps that
\* very object, as MockFilesystem does, or built it for the call, as os.listdir does
port_returned(listing, kept) ==
    held' = IF last'.raised = ""
            THEN [alias |-> IF kept THEN "entries" ELSE "none",
                  from |-> "list_directory", list |-> listing]
            ELSE held

\* entries.remove(entry) works on the list object entries is bound to: whoever
\* holds that object sees the names go
removed_in_place ==
    held' = IF held.alias = "entries" THEN [held EXCEPT !.list = entries'] ELSE held

\* a session over a port that may keep the lists it returns and append to them
NextPort ==
    \/ \E listing \in Listings, kept \in BOOLEAN :
            /\ list_entries(SourceDir, listing)
            /\ port_returned(listing, kept)
            /\ UNCHANGED loaded
    \/ \E entry \in Names : select(entry) /\ UNCHANGED <<held, loaded>>
    \/ select_all /\ UNCHANGED <<held, loaded>>
    \/ move_selection("/dest", <<>>) /\ removed_in_place /\ UNCHANGED loaded
    \/ delete_selection /\ removed_in_place /\ UNCHANGED loaded
    \/ \E name \in Names \cup {Intruder} : caller_append(name)

SpecPort == Init /\ [][NextPort]_vars

\* callers that keep and mutate what the session returned to them
NextSnapshots ==
    \/ \E directory \in LoadPaths : \E listing \in ListingsAt(directory, Listings) :
            /\ list_entries(directory, listing)
            /\ returned_listing(listing)
            /\ UNCHANGED loaded
    \/ \E entry \in Names : select(entry) /\ UNCHANGED <<held, loaded>>
    \/ select_all /\ UNCHANGED <<held, loaded>>
    \/ get_entries
    \/ get_selection
    \/ \E name \in Names \cup {Intruder} : caller_append(name)

SpecSnapshots == Init /\ [][NextSnapshots]_vars

\* the HTTP session: the routes of the Flask application over one FileManager
NextApi ==
    \/ \E path \in ApiPaths, listing \in Listings :
            list_files(path, listing) /\ UNCHANGED <<held, loaded>>
    \/ \E data \in Bodies : modify_selection(data) /\ UNCHANGED <<held, loaded>>
    \/ delete_files /\ UNCHANGED <<held, loaded>>

SpecApi == Init /\ [][NextApi]_vars

----------------------------------------------------------------------------
(* Properties. *)

\* C1: in every reachable state every selected name is a member of entries
C1_SelectionWithinEntries == selection \subseteq Range(entries)

\* a move or delete stopped by a failing transfer call leaves a part of the
\* entries selected
C1_Witness ==
    /\ last.op \in {"move_selection", "delete_selection"}
    /\ last.raised = "OSError"
    /\ selection # {}
    /\ selection # Range(entries)

\* C2: after a list_entries(d) that completes, the selection is empty and entries
\* is exactly the sequence list_directory(d) returned, whatever the state before
C2_LoadReplaces ==
    (last.op = "list_entries" /\ last.raised = "")
        => (selection = {} /\ entries = last.listing)

\* a load over a non-empty selection, into a listing that lacks a name selected
\* before
C2_Witness ==
    /\ last.op = "list_entries"
    /\ last.raised = ""
    /\ last.pre_selection # {}
    /\ ~(last.pre_selection \subseteq Range(entries))
    /\ entries # <<>>

\* C3: select(x) returns true and x is selected afterwards exactly when x is in
\* entries at call time, otherwise it returns false and the selection is as
\* before; selecting a selected name returns true and changes nothing
C3_SelectGated ==
    last.op = "select" =>
        /\ (last.ret = "True") <=> (last.arg \in Range(last.pre_entries))
        /\ (last.ret = "True") => selection = last.pre_selection \cup {last.arg}
        /\ (last.ret = "False") => selection = last.pre_selection
        /\ last.ret \in {"True", "False"}
        /\ (last.arg \in last.pre_selection)
               => (last.ret = "True" /\ selection = last.pre_selection)

\* a name that was already selected is selected again
C3_Witness ==
    /\ last.op = "select"
    /\ last.arg \in last.pre_selection
    /\ last.pre_selection # Range(last.pre_entries)

\* C4: after a move_selection or delete_selection that completes, no name selected
\* at the start of the call is in entries and the selection is empty
C4_MoveDeleteForget ==
    (last.op \in {"move_selection", "delete_selection"} /\ last.raised = "")
        => /\ last.pre_selection \cap Range(entries) = {}
           /\ selection = {}

\* a move to a generated destination that left an unselected entry behind
C4_Witness ==
    /\ last.op = "move_selection"
    /\ last.raised = ""
    /\ last.arg = None
    /\ last.pre_selection # {}
    /\ entries # <<>>

\* C5: copy_selection leaves entries and selection as they were before the call,
\* with an explicit destination or a generated one
C5_CopyKeeps ==
    last.op = "copy_selection"
        => (entries = last.pre_entries /\ selection = last.pre_selection)

\* a copy of a non-empty selection into a generated directory it created inside
\* the current directory
C5_Witness ==
    /\ last.op = "copy_selection"
    /\ last.raised = ""
    /\ last.arg = None
    /\ last.pre_selection # {}
    /\ last.calls[1] = <<"create_directory",
                         join_path(current_directory, last.drawn[1]), "">>

\* C6: current_directory is None until the first load and changes only when a
\* load succeeds; a list_entries whose list_directory fails leaves it as it was
C6_DirectorySetOnSuccess ==
    /\ last.op = "__init__" => current_directory = None
    /\ (last.op = "list_entries" /\ last.raised # "")
          => current_directory = last.pre_directory
    /\ last.op \notin {"__init__", "list_entries"}
          => current_directory = last.pre_directory

\* C7: a transfer call that fails for one selected entry does not stop the batch:
\* every selected entry still gets its transfer call, and the failure is reported
\* in the result instead of being raised
C7_FailuresCollected ==
    (last.op \in Transfers /\ last.pre_selection # {})
        => /\ Len(TransferCalls(last.calls)) = Cardinality(last.pre_selection)
           /\ last.raised = ""

\* C8: DELETE /api/files/delete answers 200 with success, deleted_count and errors
\* when the selection is not empty (every entry counted when no deletion fails),
\* and answers deleted_count 0 with a message, deleting nothing, when it is empty
C8_DeleteRoute ==
    last.op = "delete_files" =>
        IF last.pre_selection = {}
        THEN /\ last.response.status = 200
             /\ last.response.deleted_count = 0
             /\ "message" \in last.response.keys
             /\ last.calls = <<>>
        ELSE /\ last.response.status = 200
             /\ {"success", "deleted_count", "errors"} \subseteq last.response.keys
             /\ (Len(last.calls) = Cardinality(last.pre_selection)
                    /\ last.raised \in {"", "TypeError"})
                  => /\ last.response.deleted_count
                          = Cardinality(last.pre_selection)
                     /\ last.response.success = "True"

\* a copy or move that had to generate its destination in a loaded directory
Generated ==
    /\ last.op \in {"copy_selection", "move_selection"}
    /\ last.arg \in {None, ""}
    /\ last.pre_directory # None

\* the i-th candidate the random source of the latest call yields
Candidate(i) == generate_random_name(last.values, 2 * (i - 1))

\* whether a leaf name was free in the current directory when the call started
Free(name) == ~exists(join_path(last.pre_directory, name), last.pre_paths)

\* C9: when one of the first 10 candidates is free, the generated name is the
\* first free candidate in draw order and nothing is drawn after it
C9_FirstFreeCandidate ==
    (Generated /\ \E i \in 1..max_retries : Free(Candidate(i))) =>
        LET k == CHOOSE i \in 1..max_retries :
                    /\ Free(Candidate(i))
                    /\ \A j \in 1..(i - 1) : ~Free(Candidate(j))
        IN /\ last.dest = join_path(last.pre_directory, Candidate(k))
           /\ last.drawn = [i \in 1..k |-> Candidate(i)]

\* the first candidate collided and a later one was free
C9_Witness ==
    /\ Generated
    /\ \E i \in 1..max_retries : Free(Candidate(i))
    /\ ~Free(Candidate(1))
    /\ Len(last.drawn) >= 2

\* C10: when the 10 candidates all exist, the generated name is L_k, L the 10th
\* candidate and k the least integer >= 1 for which L_k is free
C10_NumberedLast ==
    (Generated /\ \A i \in 1..max_retries : ~Free(Candidate(i))) =>
        LET L == Candidate(max_retries)
            Numbered(k) == L \o "_" \o ToString(k)
            k == CHOOSE n \in 1..(Cardinality(last.pre_paths) + 1) :
                    /\ Free(Numbered(n))
                    /\ \A j \in 1..(n - 1) : ~Free(Numbered(j))
        IN /\ last.dest = join_path(last.pre_directory, Numbered(k))
           /\ last.counter = k
           /\ last.drawn = [i \in 1..max_retries |-> Candidate(i)]

\* ten collisions whose last candidate is not the first one drawn
C10_Witness ==
    /\ Generated
    /\ \A i \in 1..max_retries : ~Free(Candidate(i))
    /\ Candidate(1) # Candidate(max_retries)
    /\ last.counter >= 1

\* C11: the name the unique-name generator returns does not exist in the current
\* directory at the moment it is returned, whatever exists there and whatever the
\* random source yields
C11_GeneratedNameFree ==
    Generated =>
        /\ last.dest # None
        /\ ~exists(last.dest, last.pre_paths)
        /\ \E name \in Range(last.drawn)
                       \cup {last.drawn[Len(last.drawn)] \o "_" \o ToString(k) :
                                k \in 1..last.counter} :
              /\ last.dest = join_path(last.pre_directory, name)
              /\ Free(name)

\* a name returned after at least one collision, in a directory that already holds
\* generated directories
C11_Witness ==
    /\ Generated
    /\ last.probes > 1
    /\ last.pre_paths # InitialPaths
    /\ last.dest \notin last.pre_paths

\* a copy or move whose destination argument is explicit and non-empty
Explicit ==
    /\ last.op \in {"copy_selection", "move_selection"}
    /\ last.arg \notin {None, ""}

\* the unique name the generator yields in the state the latest call started from
GeneratedName ==
    generate_unique_name(last.values, last.pre_directory, last.pre_paths).name

\* C12 as stated: an explicit non-empty destination is returned verbatim with no
\* draw and no name-probing exists call; with None or "" the resolution returns
\* join_path(current_directory, generated unique name)
C12_DestinationResolved ==
    /\ Explicit => /\ last.dest = last.arg
                   /\ last.drawn = <<>>
                   /\ last.probes = 0
    /\ (last.op \in {"copy_selection", "move_selection"} /\ last.arg \in {None, ""})
          => /\ last.raised # "TypeError"
             /\ last.dest = join_path(last.pre_directory, GeneratedName)

\* C12 amended: as stated when a directory has been loaded; with None or "" and no
\* current directory the resolution raises TypeError from join_path(None, name),
\* after one candidate is drawn and before any exists call
C12_DestinationResolvedWhenLoaded ==
    /\ Explicit => /\ last.dest = last.arg
                   /\ last.drawn = <<>>
                   /\ last.probes = 0
    /\ Generated => /\ last.raised # "TypeError"
                    /\ last.dest = join_path(last.pre_directory, GeneratedName)
                    /\ last.probes >= 1
    /\ (last.op \in {"copy_selection", "move_selection"}
            /\ last.arg \in {None, ""} /\ last.pre_directory = None)
          => /\ last.raised = "TypeError"
             /\ last.dest = None
             /\ Len(last.drawn) = 1
             /\ last.probes = 0
             /\ last.calls = <<>>

\* the empty string resolved to a generated name although a directory named by an
\* explicit destination exists
C12_Witness ==
    /\ Generated
    /\ last.arg = ""
    /\ last.dest = join_path(last.pre_directory, GeneratedName)
    /\ "/dest" \in last.pre_paths

\* C13: select_all makes the selection exactly the set of entries and deselect_all
\* makes it empty, whatever the entries and the selection before; so each is
\* idempotent and deselect_all after select_all leaves nothing selected
C13_AllOrNothing ==
    /\ last.op = "select_all"
          => /\ selection = Range(last.pre_entries)
             /\ entries = last.pre_entries
             /\ (last.pre_selection = Range(last.pre_entries)
                    => selection = last.pre_selection)
    /\ last.op = "deselect_all"
          => /\ selection = {}
             /\ entries = last.pre_entries
             /\ (last.pre_selection = {} => selection = last.pre_selection)

\* select_all over a partial, non-empty selection
C13_Witness ==
    /\ last.op = "select_all"
    /\ last.pre_selection # {}
    /\ last.pre_selection # Range(last.pre_entries)
    /\ selection = Range(entries)

\* C14: deselect(x) returns true exactly when x was selected at call time, and then
\* exactly x leaves the selection; otherwise it returns false and the selection is
\* as before
C14_DeselectExact ==
    last.op = "deselect" =>
        /\ last.ret \in {"True", "False"}
        /\ (last.ret = "True") <=> (last.arg \in last.pre_selection)
        /\ (last.ret = "True") => selection = last.pre_selection \ {last.arg}
        /\ (last.ret = "False") => selection = last.pre_selection
        /\ entries = last.pre_entries

\* a selected name is deselected while another name stays selected
C14_Witness ==
    /\ last.op = "deselect"
    /\ last.ret = "True"
    /\ selection # {}
    /\ last.arg \notin selection

\* whether the transfer calls of the latest call are one Call(n) for every name n
\* selected when it started, and nothing else
OnePerSelected(Call(_)) ==
    LET t == TransferCalls(last.calls)
    IN /\ \A n \in last.pre_selection :
              Cardinality({i \in 1..Len(t) : t[i] = Call(n)}) = 1
       /\ \A i \in 1..Len(t) : \E n \in last.pre_selection : t[i] = Call(n)

\* the copy call the claim prescribes for a selected name
CopyCall(n) ==
    LET source == join_path(last.pre_directory, n)
        target == join_path(last.dest, n)
    IN IF is_directory(source, last.pre_paths)
       THEN <<"copy_directory", source, target>>
       ELSE <<"copy_file", source, target>>

\* the move call the claim prescribes for a selected name
MoveCall(n) ==
    <<"move", join_path(last.pre_directory, n), join_path(last.dest, n)>>

\* the delete call the claim prescribes for a selected name
DeleteCall(n) ==
    LET path == join_path(last.pre_directory, n)
    IN IF is_directory(path, last.pre_paths)
       THEN <<"delete_directory", path, "">>
       ELSE <<"delete_file", path, "">>

\* C15: copy_selection issues exactly one transfer call per selected name and none
\* for any other entry: copy_directory(source, target) for a directory, copy_file
\* for anything else, never a move or a delete
C15_CopyOnePerSelected ==
    last.op = "copy_selection" => OnePerSelected(CopyCall)

\* what holds of copy_selection on the code: the dispatch is as C15 says whenever
\* no transfer call raises
C15_CopyOnePerSelectedReturned ==
    (last.op = "copy_selection" /\ last.raised = "") => OnePerSelected(CopyCall)

\* C16: move_selection issues exactly one move(source, target) call per selected
\* name, file or directory alike, and no copy or delete call
C16_MoveOnePerSelected ==
    last.op = "move_selection" => OnePerSelected(MoveCall)

\* what holds of move_selection on the code: one move per selected name whenever
\* no transfer call raises
C16_MoveOnePerSelectedReturned ==
    (last.op = "move_selection" /\ last.raised = "") => OnePerSelected(MoveCall)

\* C17: delete_selection issues exactly one delete call per selected name and none
\* for any other entry: delete_directory(path) for a directory, delete_file(path)
\* for anything else
C17_DeleteOnePerSelected ==
    last.op = "delete_selection" => OnePerSelected(DeleteCall)

\* what holds of delete_selection on the code: one delete per selected name
\* whenever no transfer call raises
C17_DeleteOnePerSelectedReturned ==
    (last.op = "delete_selection" /\ last.raised = "") => OnePerSelected(DeleteCall)

\* the positions of the create_directory calls among the calls of the latest call
Creations == {i \in 1..Len(last.calls) : last.calls[i][1] = "create_directory"}

\* C18: copy_selection and move_selection call create_directory(destination)
\* exactly when the resolved destination does not exist, never when it does, and
\* the creation comes before the first transfer call
C18_CreateWhenAbsent ==
    last.op \in {"copy_selection", "move_selection"} =>
        IF last.dest = None
        THEN Creations = {} /\ existing_paths = last.pre_paths
        ELSE IF ~exists(last.dest, last.pre_paths)
        THEN /\ Creations = {1}
             /\ last.calls[1] = <<"create_directory", last.dest, "">>
             /\ existing_paths = last.pre_paths \cup {last.dest}
        ELSE /\ Creations = {}
             /\ existing_paths = last.pre_paths

\* a selection transferred into a destination that existed already
C18_Witness ==
    /\ last.op \in {"copy_selection", "move_selection"}
    /\ last.dest # None
    /\ exists(last.dest, last.pre_paths)
    /\ TransferCalls(last.calls) # <<>>

\* what copy_selection does with nothing selected once its destination is resolved
EmptyCopyOutcome ==
    /\ last.raised = ""
    /\ last.dest # None
    /\ last.ret = last.dest
    /\ TransferCalls(last.calls) = <<>>
    /\ exists(last.dest, existing_paths)
    /\ IF exists(last.dest, last.pre_paths)
       THEN last.calls = <<>> /\ existing_paths = last.pre_paths
       ELSE last.calls = <<<<"create_directory", last.dest, "">>>>

\* C19 as stated: copy_selection over an empty selection resolves the destination,
\* creates it when absent, makes no transfer call and returns the destination
C19_EmptyCopy ==
    (last.op = "copy_selection" /\ last.pre_selection = {}) => EmptyCopyOutcome

\* C19 amended: as stated when the destination is explicit or a directory has been
\* loaded; with no destination and no current directory the call raises TypeError
\* and creates nothing
C19_EmptyCopyWhenResolvable ==
    (last.op = "copy_selection" /\ last.pre_selection = {}) =>
        IF last.arg \notin {None, ""} \/ last.pre_directory # None
        THEN EmptyCopyOutcome
        ELSE /\ last.raised = "TypeError"
             /\ last.ret = None
             /\ last.calls = <<>>
             /\ existing_paths = last.pre_paths

\* nothing selected among listed entries, and the destination had to be created
C19_Witness ==
    /\ last.op = "copy_selection"
    /\ last.pre_selection = {}
    /\ last.pre_entries # <<>>
    /\ ~exists(last.dest, last.pre_paths)
    /\ last.ret = last.dest
    /\ last.calls # <<>>

\* C20: delete_selection over an empty selection makes no transfer call and leaves
\* current_directory, entries and selection as they were
C20_EmptyDelete ==
    (last.op = "delete_selection" /\ last.pre_selection = {}) =>
        /\ last.calls = <<>>
        /\ last.raised = ""
        /\ current_directory = last.pre_directory
        /\ entries = last.pre_entries
        /\ selection = last.pre_selection
        /\ existing_paths = last.pre_paths

\* nothing selected in a loaded directory that lists entries
C20_Witness ==
    /\ last.op = "delete_selection"
    /\ last.pre_selection = {}
    /\ last.pre_directory # None
    /\ entries # <<>>

\* the answer of the k-th choice call of the latest call (k from 1), made with
\* sequence: the scripted word when the script reaches that far, else the first
\* word of sequence
Answer(sequence, k) ==
    IF k <= Len(last.values) THEN last.values[k] ELSE sequence[1]

\* C21: every candidate is drawn by exactly two choice calls, the first with the
\* adjectives and the second with the nouns, and is "<first answer>_<second answer>"
C21_TwoChoicesPerCandidate ==
    last.op \in {"copy_selection", "move_selection"} =>
        \A i \in 1..Len(last.drawn) :
            last.drawn[i] = Answer(ADJECTIVES, 2 * i - 1) \o "_" \o Answer(NOUNS, 2 * i)

\* a scripted candidate that collided, followed by a candidate drawn once the script
\* was exhausted
C21_Witness ==
    /\ Generated
    /\ Len(last.values) = 2
    /\ Len(last.drawn) >= 2
    /\ last.drawn[1] = last.values[1] \o "_" \o last.values[2]
    /\ last.drawn[2] = ADJECTIVES[1] \o "_" \o NOUNS[1]

\* C22: one generation draws 10 candidates at most (20 choice calls); a numbered
\* name is produced only after 10 draws, nothing is drawn during the numbering, and
\* the numbered name is built on the 10th candidate
C22_TenDrawsThenNumbering ==
    last.op \in {"copy_selection", "move_selection"} =>
        /\ Len(last.drawn) <= max_retries
        /\ 2 * Len(last.drawn) <= 20
        /\ last.counter >= 1 =>
              /\ Len(last.drawn) = max_retries
              /\ last.dest = join_path(last.pre_directory,
                                       last.drawn[max_retries] \o "_"
                                           \o ToString(last.counter))
        /\ (Generated /\ last.counter = 0) =>
              last.dest = join_path(last.pre_directory, last.drawn[Len(last.drawn)])

\* a numbered name built on a 10th candidate that differs from the first, after
\* ten probes of candidates and one probe per numbered name
C22_Witness ==
    /\ Generated
    /\ last.counter >= 1
    /\ Len(last.drawn) = max_retries
    /\ last.drawn[1] # last.drawn[max_retries]
    /\ last.probes = max_retries + last.counter

\* the numbered siblings of the last candidate drawn that exist in the current
\* directory when the latest call starts
NumberedSiblings ==
    LET L == last.drawn[Len(last.drawn)]
    IN {k \in 1..(Cardinality(last.pre_paths) + 1) :
            ~Free(L \o "_" \o ToString(k))}

\* C23: the generation returns a name whenever finitely many numbered siblings of
\* the last candidate exist: the counter it stops at exceeds their number by one at
\* most
C23_GenerationTerminates ==
    Generated =>
        /\ last.dest # None
        /\ last.raised # "TypeError"
        /\ last.counter <= Cardinality(NumberedSiblings) + 1

\* a generation that returned although numbered siblings existed
C23_Witness ==
    /\ Generated
    /\ NumberedSiblings # {}
    /\ last.counter = Cardinality(NumberedSiblings) + 1
    /\ last.dest # None

\* C27: select, deselect, select_all and deselect_all change neither entries nor
\* current_directory, whatever their argument and their answer
C27_SelectionOnly ==
    last.op \in {"select", "deselect", "select_all", "deselect_all"} =>
        /\ entries = last.pre_entries
        /\ current_directory = last.pre_directory
        /\ existing_paths = last.pre_paths

\* a call that did change the selection of a loaded directory
C27_Witness ==
    /\ last.op \in {"select", "deselect", "select_all", "deselect_all"}
    /\ selection # last.pre_selection
    /\ entries # <<>>
    /\ current_directory # None

\* C30: when a transfer call raises during move_selection or delete_selection, the
\* exception leaves the call and entries and selection are as they were before
\* it, although the calls for the entries processed before were made
C30_NoUpdateOnRaise ==
    (last.op \in {"move_selection", "delete_selection"} /\ last.raised = "OSError") =>
        /\ entries = last.pre_entries
        /\ selection = last.pre_selection
        /\ last.ret = None
        /\ Len(TransferCalls(last.calls)) >= 1
        /\ Len(TransferCalls(last.calls)) <= Cardinality(last.pre_selection)

\* a move whose second transfer call raised, the first entry being moved already
C30_Witness ==
    /\ last.op = "move_selection"
    /\ last.raised = "OSError"
    /\ Len(TransferCalls(last.calls)) >= 2
    /\ selection = last.pre_selection

\* C28: after a move_selection or delete_selection that returns, entries is the
\* sequence it was before without the names selected before: the other names are
\* all there in their order, and current_directory is as before
C28_RemainingInOrder ==
    (last.op \in {"move_selection", "delete_selection"} /\ last.raised = "") =>
        /\ entries = SelectSeq(last.pre_entries,
                               LAMBDA n : n \notin last.pre_selection)
        /\ current_directory = last.pre_directory

\* two names stay, in their order, around one that was removed
C28_Witness ==
    /\ last.op \in {"move_selection", "delete_selection"}
    /\ last.raised = ""
    /\ Len(entries) = 2
    /\ Len(last.pre_entries) = 3
    /\ last.pre_entries[2] \in last.pre_selection

\* C29: entries and selection belong to current_directory, which is the directory
\* of the latest load that succeeded, and every source path handed to the transfer
\* port is join_path(d, n) for that directory d and a name n it listed
C29_SourcesOfLatestLoad ==
    /\ (entries # <<>> \/ selection # {}) =>
          /\ current_directory = loaded.directory
          /\ Range(entries) \subseteq Range(loaded.listing)
    /\ last.op \in Transfers =>
          \A i \in 1..Len(TransferCalls(last.calls)) :
              \E n \in Range(loaded.listing) :
                  TransferCalls(last.calls)[i][2] = join_path(loaded.directory, n)

\* C26: what list_entries, get_entries and get_selection return is a snapshot: it
\* holds the entries, or the selected names, of the moment, and a caller that
\* appends to it changes neither the session's entries nor its selection
C26_Snapshots ==
    /\ (last.op = "list_entries" /\ last.raised = "") => held.list = entries
    /\ last.op = "get_entries" => held.list = entries
    /\ last.op = "get_selection" =>
          /\ Range(held.list) = selection
          /\ Len(held.list) = Cardinality(selection)
    /\ last.op \in {"get_entries", "get_selection"} =>
          (entries = last.pre_entries /\ selection = last.pre_selection)
    /\ last.op = "caller_append" =>
          /\ entries = last.pre_entries
          /\ selection = last.pre_selection
          /\ current_directory = last.pre_directory

\* a caller appended to what get_entries returned while names were selected
C26_Witness ==
    /\ last.op = "caller_append"
    /\ held.from = "get_entries"
    /\ held.list # entries
    /\ entries # <<>>
    /\ selection # {}

\* C24: GET /api/files answers 404 for a path that does not exist and 400 for a
\* path that is no directory, and in both cases list_entries is not called:
\* current_directory, entries and selection are as before
C24_ListRefused ==
    last.op = "list_files" =>
        /\ ~exists(last.arg, last.pre_paths) => last.response.status = 404
        /\ (exists(last.arg, last.pre_paths)
               /\ ~is_directory(last.arg, last.pre_paths))
              => last.response.status = 400
        /\ ~is_directory(last.arg, last.pre_paths) =>
              /\ current_directory = last.pre_directory
              /\ entries = last.pre_entries
              /\ selection = last.pre_selection
              /\ "error" \in last.response.keys

\* a file path is refused while the session holds entries and a selection
C24_Witness ==
    /\ last.op = "list_files"
    /\ last.response.status = 400
    /\ last.arg \in files
    /\ selection # {}

\* the requests POST /api/selection must refuse: no action or an unknown one, no
\* entry (absent or empty) for select or deselect, a select of a name that is not
\* in entries
MustRefuse ==
    \/ last.arg.action \notin {"select", "deselect", "select_all", "deselect_all"}
    \/ /\ last.arg.action \in {"select", "deselect"}
       /\ last.arg.entry \in {None, ""}
    \/ /\ last.arg.action = "select"
       /\ last.arg.entry \notin Range(last.pre_entries)

\* C25: POST /api/selection answers 400 and leaves the selection as it was for the
\* requests it must refuse, and answers every other request 200 with success and
\* the selection that results
C25_SelectionRequests ==
    last.op = "modify_selection" =>
        IF MustRefuse
        THEN /\ last.response.status = 400
             /\ selection = last.pre_selection
        ELSE /\ last.response.status = 200
             /\ last.response.success = "True"
             /\ last.response.keys = {"success", "selection"}
             /\ last.response.selection = selection

\* a deselect of a name that is not selected is answered 200 with the selection
\* that stays
C25_Witness ==
    /\ last.op = "modify_selection"
    /\ last.arg.action = "deselect"
    /\ last.arg.entry \notin last.pre_selection
    /\ last.response.status = 200
    /\ last.response.selection # {}

\* C31: over a filesystem whose exists sees the directories create_directory made,
\* a copy_selection or move_selection without an explicit destination never
\* resolves to a destination that an earlier such call resolved to, whatever the
\* random source draws
C31_DestinationsDiffer ==
    Generated => last.dest \notin last.earlier

\* a call that returns its destination after an earlier call in the same directory
\* did, the random source drawing first the very name the earlier call was given
C31_Witness ==
    /\ Generated
    /\ last.raised = ""
    /\ last.ret = last.dest
    /\ last.earlier # {}
    /\ join_path(last.pre_directory, last.drawn[1]) \in last.earlier
    /\ last.pre_directory = SourceDir

\* a session on which list_entries has not been called yet
Unloaded == current_directory = None

\* C32: before the first load entries and selection are empty, select answers
\* False whatever the name, and no copy, move or delete call reaches the transfer
\* port, whatever selection and transfer methods were called
C32_NothingBeforeLoad ==
    Unloaded =>
        /\ entries = <<>>
        /\ selection = {}
        /\ last.op # "list_entries"
        /\ last.op = "select" => (last.ret = "False" /\ last.raised = "")
        /\ last.op \in Transfers => TransferCalls(last.calls) = <<>>

\* a move before any load that returned its destination, created it, and moved nothing
C32_Witness ==
    /\ Unloaded
    /\ last.op = "move_selection"
    /\ last.raised = ""
    /\ last.ret = last.dest
    /\ Len(last.calls) = 1
    /\ last.calls[1][1] = "create_directory"

\* C33: once move_selection or delete_selection has moved or deleted a name, select
\* of that name answers False and select_all leaves it out, until a list_entries
\* lists it again
C33_RemovedStaysOut ==
    /\ last.op = "select" =>
          (last.arg \in loaded.removed =>
              (last.ret = "False" /\ last.arg \notin selection))
    /\ last.op = "select_all" => selection \cap loaded.removed = {}

\* the names listed by the latest load that entries holds no more
Forgotten == Range(loaded.listing) \ Range(entries)

\* the same for the calls that returned: they removed every selected name from
\* entries, and a name out of entries is refused by select and left out by
\* select_all until a load lists it
C33_ForgottenStaysOut ==
    /\ (last.op \in {"move_selection", "delete_selection"} /\ last.raised = "") =>
          last.pre_selection \subseteq Forgotten
    /\ last.op = "select" =>
          (last.arg \in Forgotten =>
              (last.ret = "False" /\ last.arg \notin selection))
    /\ last.op = "select_all" => selection \cap Forgotten = {}
    /\ selection \cap Forgotten = {}

\* C34: entries is the session's own list, not the one the filesystem port holds:
\* move_selection and delete_selection leave the list that list_directory returned
\* as it was, and an append the port makes to that list leaves entries as it was
C34_EntriesNotShared ==
    [][held.from = "list_directory" =>
          /\ last'.op \in {"move_selection", "delete_selection"} =>
                held'.list = held.list
          /\ last'.op = "caller_append" => entries' = entries]_vars

\* the same for a port that builds a new list at every call
C34_EntriesNotSharedWhenBuilt ==
    [][(held.from = "list_directory" /\ held.alias = "none") =>
          /\ last'.op \in {"move_selection", "delete_selection"} =>
                held'.list = held.list
          /\ last'.op = "caller_append" => entries' = entries]_vars

====
